---- MODULE Spec2Model ----
(***************************************************************************)
(* A model of padmiss/api.py: the record classes built by Base.__init__    *)
(* and the TournamentApi client (authenticate, register_cab, broadcast,    *)
(* get_player, get_score_history, post_score).                             *)
(*                                                                         *)
(* Python values are tagged records, so that values of different Python   *)
(* types can be compared: None, str, bool, list (a reference into the      *)
(* heap, since lists are mutable and shared by reference), dict, class     *)
(* object and instance.                                                    *)
(***************************************************************************)
EXTENDS Integers, Sequences, FiniteSets, TLC

VARIABLES
    call,       \* the operation being run and its arguments
    result,     \* what the operation returned or raised (Pending before it ran)
    heap,       \* list objects: reference -> sequence of elements
    instances,  \* ChartUpload objects the caller holds: <<kwargs, instance>>
    config,     \* what TournamentApi.__init__ was given
    auth,       \* TournamentApi.auth
    requests,   \* HTTP request bodies sent so far
    everAuthOk, \* history: some authenticate call has succeeded
    pc,         \* get_score_history: position in the method
    backend,    \* get_score_history: the Scores collection being queried
    offset,     \* get_score_history: local offset
    left,       \* get_score_history: local left
    scores,     \* get_score_history: local scores
    queries,    \* history: offsets of the Scores queries issued
    songs       \* get_score_history: local songs, chart id -> bundle

vars == <<call, result, heap, instances, config, auth, requests, everAuthOk,
          pc, backend, offset, left, scores, queries, songs>>

clientVars == <<config, auth, requests, everAuthOk>>
historyVars == <<pc, backend, offset, left, scores, queries, songs>>

(***************************************************************************)
(* Bounds of the model.                                                    *)
(***************************************************************************)
MaxOmit == 1        \* fields left out of one constructor call
MaxInstances == 3   \* ChartUpload objects alive at once
MaxAppend == 2      \* elements appended to one list
MaxNull == 1        \* fields of an upload that are None
MaxTotal == 120     \* documents in the paged Scores collection
MaxCalls == 3       \* HTTP requests recorded for one client
NumCharts == 3      \* distinct step charts the scores refer to

(***************************************************************************)
(* Python values.                                                          *)
(***************************************************************************)
PyNone == [tag |-> "none"]
PyStr(s) == [tag |-> "str", s |-> s]
PyBool(b) == [tag |-> "bool", b |-> b]
PyList(ref) == [tag |-> "list", ref |-> ref]
PyDict(d) == [tag |-> "dict", d |-> d]
PyClass(name) == [tag |-> "class", name |-> name]
PyInst(cls, attrs) == [tag |-> "inst", cls |-> cls, attrs |-> attrs]

EmptyMap == <<>>

\* Python truthiness, as `c and ...` evaluates it.
Truthy(v) ==
    CASE v.tag = "none" -> FALSE
      [] v.tag = "str" -> v.s # ""
      [] v.tag = "bool" -> v.b
      [] v.tag = "list" -> heap[v.ref] # <<>>
      [] v.tag = "dict" -> DOMAIN v.d # {}
      [] OTHER -> TRUE

Ok(v) == [tag |-> "ok", value |-> v]
Raise(exc, what) == [tag |-> "raise", exc |-> exc, what |-> what]
Pending == [tag |-> "pending"]

(***************************************************************************)
(* The list objects that exist before any call: the two [] literals of     *)
(* ChartUpload.__fields__, created once when the class body runs.          *)
(***************************************************************************)
InputEventsDefault == 0
NoteScoresDefault == 1
FirstFreshRef == NoteScoresDefault + 1

(***************************************************************************)
(* The schemas: __fields__ of each class, in declaration order.            *)
(***************************************************************************)
Player_fields ==
    << <<"nickname", PyNone>>, <<"shortNickname", PyStr("")>>,
       <<"avatarIconUrl", PyStr("")>>, <<"rfidUid", PyStr("")>>,
       <<"_id", PyNone>>, <<"metaData", PyStr("{}")>>,
       <<"mountType", PyBool(FALSE)>> >>

ScoreBreakdown_fields ==
    << <<"fantastics", PyNone>>, <<"excellents", PyNone>>, <<"greats", PyNone>>,
       <<"decents", PyNone>>, <<"wayoffs", PyNone>>, <<"misses", PyNone>>,
       <<"holds", PyNone>>, <<"holdsTotal", PyNone>>, <<"minesHit", PyNone>>,
       <<"minesAvoided", PyNone>>, <<"minesTotal", PyNone>>, <<"rolls", PyNone>>,
       <<"rollsTotal", PyNone>>, <<"jumps", PyNone>>, <<"jumpsTotal", PyNone>>,
       <<"hands", PyNone>>, <<"handsTotal", PyNone>> >>

Score_fields ==
    << <<"scoreBreakdown", PyClass("ScoreBreakdown")>>, <<"scoreValue", PyNone>>,
       <<"passed", PyNone>>, <<"secondsSurvived", PyNone>> >>

Song_fields ==
    << <<"title", PyNone>>, <<"titleTransliteration", PyNone>>,
       <<"subTitle", PyNone>>, <<"subTitleTransliteration", PyNone>>,
       <<"artist", PyNone>>, <<"artistTransliteration", PyNone>>,
       <<"durationSeconds", PyNone>> >>

TimingWindows_fields ==
    << <<"fantasticTimingWindow", PyNone>>, <<"excellentTimingWindow", PyNone>>,
       <<"greatTimingWindow", PyNone>>, <<"decentTimingWindow", PyNone>>,
       <<"wayoffTimingWindow", PyNone>>, <<"mineTimingWindow", PyNone>>,
       <<"holdTimingWindow", PyNone>>, <<"rollTimingWindow", PyNone>> >>

ChartUpload_fields ==
    << <<"hash", PyNone>>, <<"meter", PyNone>>, <<"playMode", PyNone>>,
       <<"stepData", PyNone>>, <<"stepArtist", PyNone>>,
       <<"song", PyClass("Song")>>, <<"score", PyClass("Score")>>,
       <<"group", PyNone>>, <<"cabSide", PyNone>>, <<"speedMod", PyNone>>,
       <<"musicRate", PyNone>>, <<"modsTurn", PyNone>>,
       <<"modsTransform", PyNone>>, <<"modsOther", PyNone>>,
       <<"noteSkin", PyNone>>, <<"perspective", PyNone>>,
       <<"timingWindows", PyClass("TimingWindows")>>,
       <<"inputEvents", PyList(InputEventsDefault)>>,
       <<"noteScoresWithBeats", PyList(NoteScoresDefault)>> >>

InputEvent_fields ==
    << <<"beat", PyNone>>, <<"column", PyNone>>, <<"released", PyNone>> >>

NoteScore_fields ==
    << <<"beat", PyNone>>, <<"column", PyNone>>, <<"holdNoteScore", PyNone>>,
       <<"tapNoteScore", PyNone>>, <<"offset", PyNone>> >>

Classes == {"Player", "ScoreBreakdown", "Score", "Song", "TimingWindows",
            "ChartUpload", "InputEvent", "NoteScore"}

\* The subclasses of FlattenedBase; the others derive from Base directly.
FlattenedBase == {"Player", "ScoreBreakdown", "Score", "Song"}

fields(cls) ==
    CASE cls = "Player" -> Player_fields
      [] cls = "ScoreBreakdown" -> ScoreBreakdown_fields
      [] cls = "Score" -> Score_fields
      [] cls = "Song" -> Song_fields
      [] cls = "TimingWindows" -> TimingWindows_fields
      [] cls = "ChartUpload" -> ChartUpload_fields
      [] cls = "InputEvent" -> InputEvent_fields
      [] cls = "NoteScore" -> NoteScore_fields

FieldNames(cls) == {fields(cls)[i][1] : i \in 1..Len(fields(cls))}
FieldSpec(cls, k) ==
    LET i == CHOOSE j \in 1..Len(fields(cls)) : fields(cls)[j][1] = k
    IN fields(cls)[i][2]

(***************************************************************************)
(* Base.__init__.                                                          *)
(***************************************************************************)
\* Line 23 with the isinstance test dropped from the condition's effect:
\* a supplied mapping is never converted.
ShouldHydrateNever(c, val) == FALSE

\* Line 23: `c and isinstance(val, dict)`.
ShouldHydrate(c, val) == Truthy(c) /\ val.tag = "dict"

RECURSIVE Base_init_from(_, _, _, _)
\* The loop of lines 15-25 from the i-th field on, attrs being the attributes
\* set so far. c(**val) is a constructor call when c is a class, and a
\* TypeError ("object is not callable") when c is any other truthy value.
Base_init_from(cls, kwargs, i, attrs) ==
    IF i > Len(fields(cls)) THEN Ok(PyInst(cls, attrs))
    ELSE
        LET k == fields(cls)[i][1]
            c == fields(cls)[i][2]
        IN  IF k \notin DOMAIN kwargs /\ c = PyNone
            THEN Raise("TournamentApiError", k)
            ELSE
                LET val == IF k \notin DOMAIN kwargs THEN c ELSE kwargs[k]
                IN  IF ShouldHydrate(c, val)
                    THEN IF c.tag # "class"
                         THEN Raise("TypeError", k)
                         ELSE LET r == Base_init_from(c.name, val.d, 1, EmptyMap)
                              IN  IF r.tag = "raise" THEN r
                                  ELSE Base_init_from(cls, kwargs, i + 1,
                                                      attrs @@ (k :> r.value))
                    ELSE Base_init_from(cls, kwargs, i + 1, attrs @@ (k :> val))

Base_init(cls, kwargs) == Base_init_from(cls, kwargs, 1, EmptyMap)

(***************************************************************************)
(* The inputs of a constructor call.                                       *)
(***************************************************************************)
IsNested(c) == c.tag = "class"
NestedFields(cls) == {k \in FieldNames(cls) : IsNested(FieldSpec(cls, k))}
RequiredFields(cls) == {k \in FieldNames(cls) : FieldSpec(cls, k) = PyNone}

Drop(f, ks) == [k \in DOMAIN f \ ks |-> f[k]]
Update(d, e) == [k \in DOMAIN d \cup DOMAIN e |-> IF k \in DOMAIN e THEN e[k] ELSE d[k]]

\* Two lists a caller made: an empty one and one holding an InputEvent.
SuppliedEmptyList == FirstFreshRef
SuppliedList == FirstFreshRef + 1

RECURSIVE FullKwargs(_)
\* Every field supplied: the field's own name as a string, a fresh list for a
\* list-valued field, the full mapping of the nested class for a nested one.
FullKwargs(cls) ==
    [k \in FieldNames(cls) |->
        LET c == FieldSpec(cls, k)
        IN  CASE c.tag = "class" -> PyDict(FullKwargs(c.name))
              [] c.tag = "list" -> PyList(SuppliedEmptyList)
              [] OTHER -> PyStr(k)]

FullInstance(cls) == Base_init(cls, FullKwargs(cls)).value

RECURSIVE SubsetsUpTo(_, _)
\* The subsets of S with at most n elements.
SubsetsUpTo(S, n) ==
    IF n = 0 THEN {{}}
    ELSE LET smaller == SubsetsUpTo(S, n - 1)
         IN  smaller \cup {T \cup {x} : T \in smaller, x \in S}

Omissions(cls) == SubsetsUpTo(FieldNames(cls), MaxOmit)

\* Shapes a caller may supply for any field.
PlainShapes ==
    {PyNone, PyStr(""), PyBool(TRUE), PyDict(EmptyMap),
     PyDict("key" :> PyStr("value")), PyList(SuppliedList)}

RECURSIVE NestedMappings(_)
\* Mappings supplied for a field of nested class cls: complete, one field
\* missing, or one of its own nested fields given as an instance or as such
\* a mapping in turn.
NestedMappings(cls) ==
    LET full == FullKwargs(cls)
    IN  {full}
        \cup {Drop(full, {k}) : k \in FieldNames(cls)}
        \cup UNION {
               {[full EXCEPT ![k] = PyInst(FieldSpec(cls, k).name,
                                           FullInstance(FieldSpec(cls, k).name).attrs)]}
               \cup {[full EXCEPT ![k] = PyDict(m)] :
                        m \in NestedMappings(FieldSpec(cls, k).name)}
               : k \in NestedFields(cls)}

Shapes(cls, k) ==
    PlainShapes
    \cup IF IsNested(FieldSpec(cls, k))
         THEN {FullInstance(FieldSpec(cls, k).name)}
              \cup {PyDict(m) : m \in NestedMappings(FieldSpec(cls, k).name)}
         ELSE {}

Kwargs(cls) ==
    LET full == FullKwargs(cls)
        shaped == {full} \cup UNION {{[full EXCEPT ![k] = v] : v \in Shapes(cls, k)}
                                     : k \in FieldNames(cls)}
    IN  {Drop(kw, O) : kw \in shaped, O \in Omissions(cls)}

(***************************************************************************)
(* Record construction: one constructor call on an input drawn from        *)
(* Kwargs.                                                                 *)
(***************************************************************************)
RecordHeap ==
    (InputEventsDefault :> <<>>) @@ (NoteScoresDefault :> <<>>)
    @@ (SuppliedEmptyList :> <<>>)
    @@ (SuppliedList :> <<FullInstance("InputEvent")>>)

IdleClient ==
    /\ config = [kind |-> "str"]
    /\ auth = PyNone
    /\ requests = <<>>
    /\ everAuthOk = FALSE
IdleHistory ==
    /\ pc = "idle" /\ backend = [kind |-> "none"] /\ offset = 0 /\ left = 0
    /\ scores = <<>> /\ queries = <<>> /\ songs = EmptyMap

InitRecord ==
    /\ \E cls \in Classes : \E kw \in Kwargs(cls) :
           call = [op |-> "construct", cls |-> cls, kwargs |-> kw]
    /\ result = Pending
    /\ heap = RecordHeap
    /\ instances = <<>>
    /\ IdleClient
    /\ IdleHistory

Construct ==
    /\ call.op = "construct"
    /\ result = Pending
    /\ result' = Base_init(call.cls, call.kwargs)
    /\ UNCHANGED <<call, heap, instances, clientVars, historyVars>>

NextRecord == Construct

SpecRecord == InitRecord /\ [][NextRecord]_vars

(***************************************************************************)
(* Properties of record construction.                                      *)
(***************************************************************************)
Constructed == call.op = "construct" /\ result # Pending

RECURSIVE MissingRequired(_, _)
\* The required fields absent from kwargs, and from the mappings supplied in
\* it for nested-record fields, at any depth.
MissingRequired(cls, kwargs) ==
    (RequiredFields(cls) \ DOMAIN kwargs)
    \cup UNION {MissingRequired(FieldSpec(cls, k).name, kwargs[k].d) :
                  k \in {n \in NestedFields(cls) \cap DOMAIN kwargs :
                           kwargs[n].tag = "dict"}}

\* C1: a constructor call that leaves out a required field raises the
\* missing-field error naming a missing field, and a call that supplies every
\* required field returns an instance whose required attributes are the
\* supplied values.
C1_RequiredFields ==
    Constructed =>
        /\ RequiredFields(call.cls) \ DOMAIN call.kwargs # {} =>
              /\ result.tag = "raise"
              /\ result.exc = "TournamentApiError"
              /\ result.what \in MissingRequired(call.cls, call.kwargs)
        /\ MissingRequired(call.cls, call.kwargs) = {} =>
              /\ result.tag = "ok"
              /\ \A k \in RequiredFields(call.cls) :
                     result.value.attrs[k] = call.kwargs[k]

RECURSIVE Hydrated(_, _, _)
\* inst is what the class builds from kwargs as far as nested records go:
\* a supplied mapping became an instance of the nested class, built from that
\* mapping in the same way; a supplied instance is the attribute.
Hydrated(cls, kwargs, inst) ==
    /\ inst.tag = "inst"
    /\ inst.cls = cls
    /\ \A k \in RequiredFields(cls) : inst.attrs[k] = kwargs[k]
    /\ \A k \in NestedFields(cls) \cap DOMAIN kwargs :
          /\ kwargs[k].tag = "dict" =>
                Hydrated(FieldSpec(cls, k).name, kwargs[k].d, inst.attrs[k])
          /\ kwargs[k].tag = "inst" => inst.attrs[k] = kwargs[k]

\* C2: after a successful construction every nested-record field supplied as
\* a mapping holds an instance of the nested class built from that mapping,
\* at every depth, and one supplied as an instance holds that instance.
C2_NestedHydration ==
    (Constructed /\ result.tag = "ok") =>
        Hydrated(call.cls, call.kwargs, result.value)

\* A ChartUpload was built from mappings three levels deep.
C2_Witness ==
    /\ Constructed
    /\ result.tag = "ok"
    /\ call.cls = "ChartUpload"
    /\ "score" \in DOMAIN call.kwargs
    /\ call.kwargs["score"].tag = "dict"
    /\ "scoreBreakdown" \in DOMAIN call.kwargs["score"].d
    /\ call.kwargs["score"].d["scoreBreakdown"].tag = "dict"
    /\ result.value.attrs["score"].attrs["scoreBreakdown"].cls = "ScoreBreakdown"

\* C9: a value supplied for a field whose spec is not a nested-record type is
\* assigned unchanged, whatever its shape, and construction does not fail on
\* that field.
C9_AssignedAsIs ==
    Constructed =>
        \A k \in (FieldNames(call.cls) \ NestedFields(call.cls)) \cap DOMAIN call.kwargs :
            /\ result.tag = "raise" => ~(result.exc = "TypeError" /\ result.what = k)
            /\ result.tag = "ok" => result.value.attrs[k] = call.kwargs[k]

(***************************************************************************)
(* Mutable defaults: ChartUpload objects built by a caller that appends to *)
(* their inputEvents and noteScoresWithBeats lists.                        *)
(***************************************************************************)
ListFields == {"inputEvents", "noteScoresWithBeats"}

ElementOf(f) ==
    IF f = "inputEvents" THEN FullInstance("InputEvent") ELSE FullInstance("NoteScore")

\* The next unused list reference.
FreshRef == FirstFreshRef + Cardinality(DOMAIN heap \ {InputEventsDefault, NoteScoresDefault})

InitAlias ==
    /\ call = [op |-> "none"]
    /\ result = Pending
    /\ heap = (InputEventsDefault :> <<>>) @@ (NoteScoresDefault :> <<>>)
    /\ instances = <<>>
    /\ IdleClient
    /\ IdleHistory

\* ChartUpload(**kw): every required field supplied, the list fields in
\* `omitted` left out, the others supplied as one new empty list each.
NewUpload(omitted) ==
    /\ Len(instances) < MaxInstances
    /\ LET supplied == ListFields \ omitted
           ref(f) == IF f = "inputEvents" \/ "inputEvents" \in omitted
                     THEN FreshRef ELSE FreshRef + 1
           kw == Drop([k \in FieldNames("ChartUpload") |->
                         IF k \in ListFields THEN PyList(ref(k))
                         ELSE FullKwargs("ChartUpload")[k]], omitted)
           r == Base_init("ChartUpload", kw)
       IN  /\ heap' = heap @@ [n \in {ref(f) : f \in supplied} |-> <<>>]
           /\ call' = [op |-> "construct", cls |-> "ChartUpload", kwargs |-> kw]
           /\ result' = r
           /\ instances' = Append(instances,
                                  [kwargs |-> kw, inst |-> r.value, appended |-> {}])
    /\ UNCHANGED <<clientVars, historyVars>>

\* upload.<f>.append(element), on the i-th object the caller holds.
AppendTo(i, f) ==
    /\ i \in 1..Len(instances)
    /\ LET ref == instances[i].inst.attrs[f].ref
       IN  /\ Len(heap[ref]) < MaxAppend
           /\ heap' = [heap EXCEPT ![ref] = Append(@, ElementOf(f))]
    /\ instances' = [instances EXCEPT ![i].appended = @ \cup {f}]
    /\ call' = [op |-> "append", target |-> i, field |-> f]
    /\ result' = Ok(PyNone)
    /\ UNCHANGED <<clientVars, historyVars>>

NextAlias ==
    \/ \E omitted \in SUBSET ListFields : NewUpload(omitted)
    \/ \E i \in 1..MaxInstances : \E f \in ListFields : AppendTo(i, f)

SpecAlias == InitAlias /\ [][NextAlias]_vars

\* C10: an object built without a list field holds the declared default, and
\* appending to one object's list leaves the list of every other object built
\* without that field empty.
C10_DefaultNotShared ==
    \A j \in 1..Len(instances) : \A f \in ListFields :
        f \notin DOMAIN instances[j].kwargs =>
            /\ instances[j].inst.attrs[f].tag = "list"
            /\ f \notin instances[j].appended =>
                   heap[instances[j].inst.attrs[f].ref] = <<>>

(***************************************************************************)
(* TournamentApi.post_score.                                               *)
(***************************************************************************)
\* A new Python list holding items (the result of list(map(...))).
PyListOf(items) == [tag |-> "listof", items |-> items]

\* self.key is set by __init__ only when the config is not a bare URL string.
KeyUnset == [tag |-> "unset"]

IsInstance(v) == v.tag = "inst"

\* Line 389 without its filter: every entry is sent, None included.
WirePayloadUnfiltered(data) ==
    [k \in DOMAIN data |->
        IF IsInstance(data[k]) THEN PyDict(data[k].attrs) ELSE data[k]]

\* Line 388-389: {k: dumpable(v) for k, v in data.items() if v is not None}.
WirePayload(data) ==
    [k \in {n \in DOMAIN data : data[n] # PyNone} |->
        IF IsInstance(data[k]) THEN PyDict(data[k].attrs) ELSE data[k]]

\* Lines 372-385: the merged mapping. Every object read here is an instance
\* (see Flattenable).
FlatData(key, player, upload) ==
    LET score == upload.attrs["score"]
        fixed == [apiKey |-> key,
                  playerId |-> player.attrs["_id"],
                  scoreValue |-> score.attrs["scoreValue"],
                  passed |-> score.attrs["passed"],
                  secondsSurvived |-> score.attrs["secondsSurvived"],
                  group |-> upload.attrs["group"]]
        own == [k \in {n \in DOMAIN upload.attrs :
                         ~(IsInstance(upload.attrs[n])
                           /\ upload.attrs[n].cls \in FlattenedBase)}
                  |-> upload.attrs[k]]
        dicts(f) == PyListOf([i \in 1..Len(heap[upload.attrs[f].ref]) |->
                                 PyDict(heap[upload.attrs[f].ref][i].attrs)])
        merged == Update(Update(Update(fixed, score.attrs["scoreBreakdown"].attrs),
                                upload.attrs["song"].attrs), own)
    IN  Update(merged, [inputEvents |-> dicts("inputEvents"),
                        noteScoresWithBeats |-> dicts("noteScoresWithBeats")])

\* The attribute reads of lines 373-385 all succeed: the key is set, score,
\* its breakdown and song are objects with the attributes read, and the two
\* event fields are lists. Anything else raises before a request is made.
Flattenable(key, player, upload) ==
    /\ key # KeyUnset
    /\ IsInstance(player)
    /\ IsInstance(upload.attrs["score"])
    /\ IsInstance(upload.attrs["score"].attrs["scoreBreakdown"])
    /\ IsInstance(upload.attrs["song"])
    /\ \A f \in ListFields : upload.attrs[f].tag = "list"

\* json.dumps of the body raises TypeError on a class object.
Serializable(payload) == \A k \in DOMAIN payload : payload[k].tag # "class"

PostResponses == {"success", "rejected", "network_error"}

RECURSIVE FieldPaths(_, _)
\* The fields of a class and of its nested classes, as paths.
FieldPaths(cls, prefix) ==
    {Append(prefix, k) : k \in FieldNames(cls)}
    \cup UNION {FieldPaths(FieldSpec(cls, k).name, Append(prefix, k)) :
                  k \in NestedFields(cls)}

RECURSIVE KwargsWith(_, _, _, _)
\* The full mapping of a class with the fields at the paths in `nulls`
\* supplied as None and those in `omitted` left out.
KwargsWith(cls, prefix, nulls, omitted) ==
    [k \in {n \in FieldNames(cls) : Append(prefix, n) \notin omitted} |->
        LET c == FieldSpec(cls, k)
        IN  CASE Append(prefix, k) \in nulls -> PyNone
              [] c.tag = "class" ->
                    PyDict(KwargsWith(c.name, Append(prefix, k), nulls, omitted))
              [] c.tag = "list" -> PyList(SuppliedList)
              [] OTHER -> PyStr(k)]

\* Fields a ChartUpload may be built without.
OptionalPaths ==
    {<<k>> : k \in FieldNames("ChartUpload") \ RequiredFields("ChartUpload")}
    \cup {<<"score", "scoreBreakdown">>}

Uploads ==
    {Base_init("ChartUpload", KwargsWith("ChartUpload", <<>>, nulls, omitted)).value :
        nulls \in SubsetsUpTo(FieldPaths("ChartUpload", <<>>), MaxNull),
        omitted \in SubsetsUpTo(OptionalPaths, 1)}

InitPost ==
    /\ heap = RecordHeap
    /\ \E key \in {KeyUnset, PyNone, PyStr("apiKey")} :
       \E upload \in Uploads :
       \E response \in PostResponses :
           call = [op |-> "post_score", key |-> key,
                   player |-> FullInstance("Player"),
                   upload |-> upload, response |-> response]
    /\ result = Pending
    /\ instances = <<>>
    /\ IdleClient
    /\ IdleHistory

post_score ==
    /\ call.op = "post_score"
    /\ result = Pending
    /\ IF ~Flattenable(call.key, call.player, call.upload)
       THEN result' = Raise("AttributeError", "post_score") /\ requests' = requests
       ELSE LET payload == WirePayload(FlatData(call.key, call.player, call.upload))
            IN  IF ~Serializable(payload)
                THEN result' = Raise("TypeError", "json") /\ requests' = requests
                ELSE /\ requests' = Append(requests,
                                           [path |-> "/post-score", json |-> payload])
                     /\ result' = CASE call.response = "success" -> Ok(PyNone)
                                    [] call.response = "rejected" ->
                                          Raise("TournamentApiError", "message")
                                    [] OTHER -> Raise("ConnectionError", "requests.post")
    /\ UNCHANGED <<call, heap, instances, config, auth, everAuthOk, historyVars>>

NextPost == post_score

SpecPost == InitPost /\ [][NextPost]_vars

Submitted == call.op = "post_score" /\ Len(requests) = 1

\* C3: every key of the submitted payload has a non-null value: a field of
\* the fixed fields, the score breakdown, the song or the upload that is None
\* is left out of the payload.
C3_NoNullInPayload ==
    Submitted =>
        LET json == requests[1].json
            upload == call.upload
            score == upload.attrs["score"]
            breakdown == score.attrs["scoreBreakdown"]
            song == upload.attrs["song"]
        IN  /\ \A k \in DOMAIN json : json[k] # PyNone
            /\ \A k \in DOMAIN breakdown.attrs :
                   breakdown.attrs[k] = PyNone => k \notin DOMAIN json
            /\ \A k \in DOMAIN song.attrs :
                   song.attrs[k] = PyNone => k \notin DOMAIN json
            /\ \A k \in DOMAIN upload.attrs :
                   upload.attrs[k] = PyNone => k \notin DOMAIN json
            /\ \A k \in {"scoreValue", "passed", "secondsSurvived"} :
                   score.attrs[k] = PyNone => k \notin DOMAIN json
            /\ call.key = PyNone => "apiKey" \notin DOMAIN json

\* An upload whose scoreBreakdown.misses is None was submitted without the key.
C3_Witness ==
    /\ Submitted
    /\ call.upload.attrs["score"].attrs["scoreBreakdown"].attrs["misses"] = PyNone
    /\ "misses" \notin DOMAIN requests[1].json
    /\ "fantastics" \in DOMAIN requests[1].json

(***************************************************************************)
(* TournamentApi.get_score_history.                                        *)
(***************************************************************************)
PageLimit == 10     \* `limit: 10` of the Scores query
OffsetStep == 10    \* `offset += 10`
OffsetCap == 100    \* `offset > 100`

\* The Scores collections queried: one of `total` documents served in pages
\* (sorted, offset and limit applied), one that serves `size` documents at
\* every offset and so never runs out, and one that answers without 'data'.
Backends ==
    {[kind |-> "paged", total |-> t] : t \in 0..MaxTotal}
    \cup {[kind |-> "fixed", size |-> n] : n \in 1..PageLimit}
    \cup {[kind |-> "error"]}

Doc(i) == [_id |-> i, stepChart |-> i % NumCharts]

\* scoreResult['data']['Scores']['docs'] for the query at offset off; <<>> also
\* stands for a result without 'data'.
Page(b, off) ==
    CASE b.kind = "paged" ->
            LET n == IF b.total - off >= PageLimit THEN PageLimit
                     ELSE IF b.total > off THEN b.total - off ELSE 0
            IN  [j \in 1..n |-> Doc(off + j - 1)]
      [] b.kind = "fixed" -> [j \in 1..b.size |-> Doc(off + j - 1)]
      [] OTHER -> <<>>

\* Line 339 without the cap on the offset.
LoopExitNoCap(l, o) == l = 0

\* Line 339 leaving on a page shorter than the limit.
LoopExitOnShortPage(l, o) == l < PageLimit \/ o > OffsetCap

\* Line 339: `if left == 0 or offset > 100: break`.
LoopExit(l, o) == l = 0 \/ o > OffsetCap

InitHistory ==
    /\ call = [op |-> "none"]
    /\ result = Pending
    /\ heap = RecordHeap
    /\ instances = <<>>
    /\ IdleClient
    /\ IdleHistory

\* The call, lines 303-306, against backend b.
get_score_history(b) ==
    /\ pc = "idle"
    /\ call' = [op |-> "get_score_history"]
    /\ backend' = b
    /\ left' = 0
    /\ offset' = 0
    /\ scores' = <<>>
    /\ pc' = "loop"
    /\ UNCHANGED <<result, heap, instances, clientVars, queries, songs>>

\* One iteration of the while loop, lines 308-340.
FetchPage ==
    /\ pc = "loop"
    /\ LET docs == Page(backend, offset)
       IN  /\ queries' = Append(queries, offset)
           /\ IF docs = <<>>
              THEN /\ left' = 0
                   /\ UNCHANGED <<scores, offset>>
              ELSE /\ left' = Len(docs)
                   /\ scores' = scores \o docs
                   /\ offset' = offset + OffsetStep
    /\ pc' = IF LoopExit(left', offset') THEN "populate" ELSE "loop"
    /\ UNCHANGED <<call, result, heap, instances, clientVars, backend, songs>>

\* The second pass, lines 343-369: one Stepchart lookup per distinct chart,
\* each bundled with the fetched scores that refer to it.
Populate ==
    /\ pc = "populate"
    /\ songs' = [id \in {scores[i].stepChart : i \in 1..Len(scores)} |->
                    LET OfChart(sc) == sc.stepChart = id
                    IN  [Stepchart |-> id, scores |-> SelectSeq(scores, OfChart)]]
    /\ result' = Ok(PyDict(songs'))
    /\ pc' = "done"
    /\ UNCHANGED <<call, heap, instances, clientVars, backend, offset, left, scores, queries>>

NextHistory ==
    \/ \E b \in Backends : get_score_history(b)
    \/ FetchPage
    \/ Populate

\* The method runs to completion once called: nothing suspends it.
SpecHistory ==
    InitHistory /\ [][NextHistory]_vars /\ WF_vars(FetchPage) /\ WF_vars(Populate)

LoopOver == pc \in {"populate", "done"}

\* C4 as stated: against 35 documents served in pages of 10 the loop
\* accumulates 35 documents with 4 queries, at offsets 0, 10, 20 and 30.
C4_FourFetches ==
    (backend = [kind |-> "paged", total |-> 35] /\ LoopOver) =>
        /\ Len(scores) = 35
        /\ queries = <<0, 10, 20, 30>>

\* C4 amended: against 35 documents served in pages of 10 the loop
\* accumulates 35 documents with 5 queries, at offsets 0, 10, 20, 30 and 40,
\* the last of which returns the empty page that ends the loop.
C4_FiveFetches ==
    (backend = [kind |-> "paged", total |-> 35] /\ LoopOver) =>
        /\ Len(scores) = 35
        /\ queries = <<0, 10, 20, 30, 40>>
        /\ left = 0

\* The call against 35 documents has returned.
C4_Witness ==
    /\ backend = [kind |-> "paged", total |-> 35]
    /\ pc = "done"
    /\ Len(scores) = 35

\* At most 11 queries, at offsets 0, 10, ..., 100, and at most 110 documents.
C5_Bounded ==
    /\ Len(queries) <= 11
    /\ \A i \in 1..Len(queries) : queries[i] = 10 * (i - 1)
    /\ Len(scores) <= 110
    /\ Len(scores) <= 10 * Len(queries)

\* A query that returned documents moves the offset by exactly 10; one that
\* returned none leaves it and ends the loop; the loop ends once the offset
\* exceeds 100.
C5_Step ==
    (pc = "loop" /\ queries' # queries) =>
        /\ Len(scores') > Len(scores) => offset' = offset + 10
        /\ Len(scores') = Len(scores) => (offset' = offset /\ pc' # "loop")
        /\ offset' > 100 => pc' # "loop"
        /\ (Len(scores') > Len(scores) /\ offset' <= 100) => pc' = "loop"

\* C5: whatever the backend returns in pages of at most 10 documents, the
\* pagination loop ends: the offset grows by 10 per non-empty page, the loop
\* stops on an empty page or once the offset exceeds 100, after at most 11
\* queries and 110 documents.
C5_PaginationTerminates ==
    /\ []C5_Bounded
    /\ [][C5_Step]_vars
    /\ (pc = "loop") ~> LoopOver

\* A backend that never returns an empty page was queried 11 times and the
\* loop then stopped with 110 documents.
C5_Witness ==
    /\ backend = [kind |-> "fixed", size |-> 10]
    /\ pc = "done"
    /\ Len(queries) = 11
    /\ Len(scores) = 110

(***************************************************************************)
(* TournamentApi: __init__, authenticate, register_cab, broadcast.         *)
(***************************************************************************)
\* What __init__ accepts: a bare URL string (self.key is then never set), or
\* an object with padmiss_api_url and api_key, with or without a webserver.
Configs ==
    {[kind |-> "str"]}
    \cup {[kind |-> "object", api_key |-> k, webserver |-> w] :
            k \in {PyNone, PyStr("apiKey")}, w \in BOOLEAN}

Tokens == {"token1", "token2"}

\* The JSON objects a server may answer with: success true, false, null or
\* absent, with or without a message and a token.
JsonBodies ==
    {Update(Update(s, m), t) :
        s \in {EmptyMap} \cup {("success" :> v) : v \in {PyBool(TRUE), PyBool(FALSE), PyNone}},
        m \in {EmptyMap, ("message" :> PyStr("message"))},
        t \in {EmptyMap} \cup {("token" :> PyStr(x)) : x \in Tokens}}

\* What requests.post and r.json() may produce.
Responses ==
    {[kind |-> "network_error"], [kind |-> "malformed_json"]}
    \cup {[kind |-> "json", j |-> j] : j \in JsonBodies}

\* requests.post(...) followed by r.json().
PostJson(response) ==
    CASE response.kind = "network_error" -> Raise("ConnectionError", "requests.post")
      [] response.kind = "malformed_json" -> Raise("ValueError", "r.json")
      [] OTHER -> Ok(PyDict(response.j))

\* `if j['success'] != True: raise Exception(text + j['message'])`.
CheckSuccess(r, text) ==
    IF r.tag = "raise" THEN r
    ELSE IF "success" \notin DOMAIN r.value.d THEN Raise("KeyError", "success")
    ELSE IF r.value.d["success"] # PyBool(TRUE)
         THEN IF "message" \notin DOMAIN r.value.d
              THEN Raise("KeyError", "message")
              ELSE Raise("Exception", text)
    ELSE r

\* authenticate with `self.auth = j` placed before the success check.
AuthAfterStoreFirst(prev, r, checked) == IF r.tag = "ok" THEN r.value ELSE prev

\* Lines 179-184: self.auth after the call, r being the decoded response and
\* checked the outcome of the success check.
AuthAfter(prev, r, checked) == IF checked.tag = "ok" THEN checked.value ELSE prev

\* broadcast without its try/except.
CaughtNothing(outcome) == outcome

\* Lines 208-223: the try block's outcome as broadcast returns it.
Caught(outcome) == IF outcome.tag = "raise" THEN Ok(PyBool(FALSE)) ELSE outcome

InitClient ==
    /\ call = [op |-> "none"]
    /\ result = Pending
    /\ heap = RecordHeap
    /\ instances = <<>>
    /\ config \in Configs
    /\ auth = PyNone
    /\ requests = <<>>
    /\ everAuthOk = FALSE
    /\ IdleHistory

authenticate(response) ==
    /\ Len(requests) < MaxCalls
    /\ LET r == PostJson(response)
           checked == CheckSuccess(r, "Authentication failed: ")
       IN  /\ requests' = Append(requests, [path |-> "/authenticate",
                                            json |-> [email |-> PyStr("username"),
                                                      password |-> PyStr("password")]])
           /\ auth' = AuthAfter(auth, r, checked)
           /\ everAuthOk' = (everAuthOk \/ checked.tag = "ok")
           /\ result' = checked
    /\ call' = [op |-> "authenticate", response |-> response, authBefore |-> auth,
                okBefore |-> everAuthOk, sentBefore |-> Len(requests)]
    /\ UNCHANGED <<heap, instances, config, historyVars>>

register_cab(response) ==
    /\ Len(requests) < MaxCalls
    /\ IF ~Truthy(auth)
       THEN /\ result' = Raise("Exception", "You need to authenticate first")
            /\ UNCHANGED requests
       ELSE IF "token" \notin DOMAIN auth.d
       THEN /\ result' = Raise("KeyError", "token")
            /\ UNCHANGED requests
       ELSE /\ requests' = Append(requests, [path |-> "/api/arcade-cabs/create",
                                             json |-> [token |-> auth.d["token"],
                                                       name |-> PyStr("name")]])
            /\ result' = CheckSuccess(PostJson(response), "Cab creation failed: ")
    /\ call' = [op |-> "register_cab", response |-> response, authBefore |-> auth,
                okBefore |-> everAuthOk, sentBefore |-> Len(requests)]
    /\ UNCHANGED <<heap, instances, config, auth, everAuthOk, historyVars>>

broadcast(response) ==
    /\ Len(requests) < MaxCalls
    /\ IF config.kind = "str"
       THEN \* self.key, then self.config.webserver on a str: AttributeError
            /\ result' = Caught(Raise("AttributeError", "key"))
            /\ UNCHANGED requests
       ELSE IF ~config.webserver
       THEN /\ result' = Caught(Raise("AttributeError", "webserver"))
            /\ UNCHANGED requests
       ELSE /\ requests' = Append(requests, [path |-> "api/arcade-cabs/broadcast",
                                             json |-> [apiKey |-> config.api_key,
                                                       ip |-> PyStr("host:port")]])
            /\ LET r == PostJson(response)
               IN  result' = Caught(
                       IF r.tag = "raise" THEN r
                       ELSE IF "success" \notin DOMAIN r.value.d
                            THEN Raise("KeyError", "success")
                       ELSE IF r.value.d["success"] # PyBool(TRUE)
                            THEN Raise("Exception", "No ok status: ")
                       ELSE Ok(PyBool(TRUE)))
    /\ call' = [op |-> "broadcast", response |-> response, authBefore |-> auth,
                okBefore |-> everAuthOk, sentBefore |-> Len(requests)]
    /\ UNCHANGED <<heap, instances, config, auth, everAuthOk, historyVars>>

NextClient ==
    \/ \E response \in Responses : authenticate(response)
    \/ \E response \in Responses : register_cab(response)
    \/ \E response \in Responses : broadcast(response)

SpecClient == InitClient /\ [][NextClient]_vars

\* The server's answer says success: true.
Accepted(response) ==
    /\ response.kind = "json"
    /\ "success" \in DOMAIN response.j
    /\ response.j["success"] = PyBool(TRUE)

\* C6: a cabinet-creation request is sent only after some authenticate call
\* on this client succeeded; without one register_cab raises and sends
\* nothing; an authenticate call the server does not accept raises and leaves
\* self.auth as it was.
C6_AuthBeforeRegister ==
    /\ \A i \in 1..Len(requests) :
          requests[i].path = "/api/arcade-cabs/create" => everAuthOk
    /\ (call.op = "register_cab" /\ ~call.okBefore) =>
          /\ result = Raise("Exception", "You need to authenticate first")
          /\ Len(requests) = call.sentBefore
    /\ (call.op = "authenticate" /\ ~Accepted(call.response)) =>
          /\ result.tag = "raise"
          /\ auth = call.authBefore
          /\ everAuthOk = call.okBefore

\* register_cab was refused on a client whose only authenticate calls were
\* rejected.
C6_Witness ==
    /\ call.op = "register_cab"
    /\ ~everAuthOk
    /\ Len(requests) >= 1
    /\ \A i \in 1..Len(requests) : requests[i].path = "/authenticate"
    /\ result = Raise("Exception", "You need to authenticate first")

\* C7: broadcast returns a boolean whatever fails, and returns true exactly
\* when the request was made and the answer's success field is true.
C7_BroadcastNeverRaises ==
    call.op = "broadcast" =>
        /\ result \in {Ok(PyBool(TRUE)), Ok(PyBool(FALSE))}
        /\ result = Ok(PyBool(TRUE)) <=>
              /\ config.kind = "object"
              /\ config.webserver
              /\ Accepted(call.response)

\* broadcast returned false on a network error.
C7_Witness ==
    /\ call.op = "broadcast"
    /\ config.kind = "object"
    /\ config.webserver
    /\ call.response.kind = "network_error"
    /\ result = Ok(PyBool(FALSE))

(***************************************************************************)
(* TournamentApi.get_player.                                               *)
(***************************************************************************)
\* The fields the Players query asks for, lines 238-251.
PlayerSelection ==
    {"_id", "nickname", "shortNickname", "avatarIconUrl", "playerLevel",
     "playerExperiencePoints", "globalLadderRank", "globalLadderRating",
     "accuracy", "stamina", "totalSteps", "totalPlayTimeSeconds",
     "totalSongsPlayed", "metaData"}

\* A player document as the service stores it.
PlayerDoc(id, nick, rfid) ==
    [k \in PlayerSelection \cup {"rfidUid"} |->
        CASE k = "_id" -> PyStr(id)
          [] k = "nickname" -> PyStr(nick)
          [] k = "rfidUid" -> PyStr(rfid)
          [] k = "metaData" -> PyStr("{}")
          [] OTHER -> PyStr(k)]

\* Three players, two of them with the same nickname.
StoredPlayers ==
    {PlayerDoc("id1", "ann", "rfid1"), PlayerDoc("id2", "bob", "rfid2"),
     PlayerDoc("id3", "ann", "rfid3")}

\* Lines 226-232: an argument that is None or empty adds nothing.
PlayerFilter(playerId, rfidUid, nickname) ==
    LET given == [_id |-> playerId, rfidUid |-> rfidUid, nickname |-> nickname]
    IN  [k \in {n \in DOMAIN given : Truthy(given[n])} |-> given[k]]

\* The documents the service matches: those equal to the filter on its keys.
Matching(db, filter) == {d \in db : \A k \in DOMAIN filter : d[k] = filter[k]}

\* A document as the answer carries it: the selected fields only.
Selected(d) == [k \in PlayerSelection |-> d[k]]

InitPlayer ==
    /\ \E db \in SUBSET StoredPlayers :
       \E playerId \in {PyNone, PyStr(""), PyStr("id1"), PyStr("id2")} :
       \E rfidUid \in {PyNone, PyStr("rfid1"), PyStr("rfid3")} :
       \E nickname \in {PyNone, PyStr("ann"), PyStr("bob")} :
       \E answer \in {"data", "no_data", "players_null"} :
           call = [op |-> "get_player", db |-> db, playerId |-> playerId,
                   rfidUid |-> rfidUid, nickname |-> nickname, answer |-> answer]
    /\ result = Pending
    /\ heap = RecordHeap
    /\ instances = <<>>
    /\ IdleClient
    /\ IdleHistory

get_player ==
    /\ call.op = "get_player"
    /\ result = Pending
    /\ LET docs == {Selected(d) : d \in Matching(call.db,
                       PlayerFilter(call.playerId, call.rfidUid, call.nickname))}
       IN  result' =
             IF call.answer = "no_data" THEN Ok(PyNone)
             ELSE IF call.answer = "players_null" \/ Cardinality(docs) # 1
                  THEN Ok(PyNone)
             ELSE Base_init("Player", CHOOSE d \in docs : TRUE)
    /\ UNCHANGED <<call, heap, instances, clientVars, historyVars>>

NextPlayer == get_player

SpecPlayer == InitPlayer /\ [][NextPlayer]_vars

\* C8: get_player returns None when no document or more than one matches,
\* and when exactly one matches a Player whose _id, rfidUid and nickname are
\* those of the matched document.
C8_GetPlayer ==
    (call.op = "get_player" /\ result # Pending /\ call.answer = "data") =>
        LET matched == Matching(call.db,
                                PlayerFilter(call.playerId, call.rfidUid, call.nickname))
        IN  /\ Cardinality(matched) # 1 => result = Ok(PyNone)
            /\ Cardinality(matched) = 1 =>
                  /\ result.tag = "ok"
                  /\ result.value.tag = "inst"
                  /\ result.value.cls = "Player"
                  /\ \A d \in matched : \A k \in {"_id", "rfidUid", "nickname"} :
                         result.value.attrs[k] = d[k]

====
